---- MODULE Spec2Model ----
(***************************************************************************)
(* Model of the AlfaBankSBPClient (alfabank_sbp/client.py) and of its      *)
(* exception type (alfabank_sbp/exceptions.py).                            *)
(*                                                                         *)
(* The client is single threaded and keeps no mutable state between calls  *)
(* besides its configuration (term_no).  One public operation is one       *)
(* action, except poll_qr_status, whose loop is one action per iteration.  *)
(* The HTTP exchange is the environment: each POST draws the outcome of    *)
(* the exchange (connection failure, non-2xx status, or a 2xx status with  *)
(* a JSON mapping) from HttpOutcomes.                                      *)
(*                                                                         *)
(* Python values are tagged records, so that None, "", 0 and a missing     *)
(* key stay distinct.  The Russian message texts of the source are written *)
(* in ASCII transliteration, since strings of the module are ASCII.        *)
(***************************************************************************)
EXTENDS Integers, Sequences, FiniteSets, TLC

VARIABLES
    term_no,   \* self.term_no, set at construction
    pc,        \* "idle": no call in progress; "poll": inside the loop of
               \* poll_qr_status; "done": the call has returned or raised
    call,      \* the operation invoked and its arguments
    log,       \* what the call did so far: POSTs, debug records, sleeps
    attempt,   \* the loop variable of poll_qr_status
    http,      \* the outcome of the latest HTTP exchange of the call
    outcome    \* what the call gave its caller: a return value or an exception

vars == <<term_no, pc, call, log, attempt, http, outcome>>

----------------------------------------------------------------------------
(* Bounds of the model *)

\* poll_qr_status is called with max_attempts in -1 .. MaxAttempts
MaxAttempts == 3

\* at most MaxOpt of the optional, non-identifier parameters of a call
\* deviate from their default
MaxOpt == 1

----------------------------------------------------------------------------
(* Python values *)

None == [tag |-> "None"]
PStr(s) == [tag |-> "str", s |-> s]
PInt(n) == [tag |-> "int", n |-> n]
PBool(b) == [tag |-> "bool", b |-> b]
PDict(d) == [tag |-> "dict", d |-> d]

EmptyDict == [k \in {} |-> None]

\* truth value of a Python object, as `not`, `or` and any() take it
Truthy(v) ==
    CASE v.tag = "None" -> FALSE
      [] v.tag = "str" -> v.s # ""
      [] v.tag = "int" -> v.n # 0
      [] v.tag = "bool" -> v.b
      [] v.tag = "dict" -> DOMAIN v.d # {}

\* str(x) of an int or a bool
py_str(v) ==
    CASE v.tag = "int" -> PStr(ToString(v.n))
      [] v.tag = "bool" -> PStr(IF v.b THEN "True" ELSE "False")
      [] v.tag = "None" -> PStr("None")
      [] OTHER -> v

\* str.lower(), on the strings str() gives for a bool
py_lower(v) ==
    CASE v = PStr("True") -> PStr("true")
      [] v = PStr("False") -> PStr("false")
      [] OTHER -> v

\* dict.get(key, default)
dict_get(d, key, default) == IF key \in DOMAIN d THEN d[key] ELSE default

\* max with the floor lost: the requested interval is used as it is
py_max_first(a, b) == a

\* the builtin max of two ints
py_max(a, b) == IF b > a THEN b ELSE a

\* json.dumps: None becomes null and keeps its key
RECURSIVE json_dumps(_)
json_dumps(v) ==
    CASE v.tag = "None" -> [j |-> "null"]
      [] v.tag = "str" -> [j |-> "string", s |-> v.s]
      [] v.tag = "int" -> [j |-> "number", n |-> v.n]
      [] v.tag = "bool" -> [j |-> "boolean", b |-> v.b]
      [] v.tag = "dict" ->
            [j |-> "object", members |-> [k \in DOMAIN v.d |-> json_dumps(v.d[k])]]

----------------------------------------------------------------------------
(* Exceptions *)

\* AlfaBankSBPClientError(*args): __init__ takes exactly (code, message);
\* any other number of positional arguments makes the construction itself
\* raise TypeError
AlfaBankSBPClientError(args) ==
    IF Len(args) = 2
    THEN [type |-> "AlfaBankSBPClientError", code |-> args[1], message |-> args[2]]
    ELSE [type |-> "TypeError"]

HTTPError == [type |-> "HTTPError"]
ConnectionError == [type |-> "ConnectionError"]

NoOutcome == [kind |-> "none"]
Return(v) == [kind |-> "return", value |-> v]
Raise(e) == [kind |-> "raise", exc |-> e]

----------------------------------------------------------------------------
(* The HTTP exchange *)

NoHttp == [kind |-> "none"]
ConnectionFailure == [kind |-> "connection_error"]
HttpFailure == [kind |-> "http_error"]
HttpOk(json) == [kind |-> "ok", json |-> json]

Field(key, values) == {EmptyDict} \cup {key :> v : v \in values}

ErrorCodes == {PInt(0), PInt(5), None}
Messages == {PStr("bad signature")}
Statuses == {PStr("PDNG"), PStr("ACWP"), PStr("RJCT")}

JsonResponses ==
    {ec @@ m @@ st : ec \in Field("ErrorCode", ErrorCodes),
                     m \in Field("message", Messages),
                     st \in Field("status", Statuses)}

HttpOutcomes == {ConnectionFailure, HttpFailure} \cup {HttpOk(r) : r \in JsonResponses}

----------------------------------------------------------------------------
(* Log records *)

Post(body) == [ev |-> "post", body |-> body]
Sleep(secs) == [ev |-> "sleep", secs |-> secs]
Debug(what, n) == [ev |-> "debug", what |-> what, attempt |-> n]

Did(posted, out) == [post |-> posted, out |-> out]

----------------------------------------------------------------------------
(* The request *)

\* a request body built without the terminal identifier
_build_request_data_no_term(self_term_no, command, optional_params) ==
    optional_params @@ ("command" :> PStr(command))

_build_request_data(self_term_no, command, optional_params) ==
    optional_params @@ ("command" :> PStr(command) @@ "TermNo" :> self_term_no)

\* a classification that takes a missing ErrorCode for success:
\* result.get("ErrorCode", 0) != 0
_send_request_absent_ok(data, response) ==
    LET body == json_dumps(PDict(data))
        result == response.json
    IN  CASE response.kind = "connection_error" ->
                Did(<<Post(body)>>, Raise(ConnectionError))
          [] response.kind = "http_error" ->
                Did(<<Post(body)>>, Raise(HTTPError))
          [] OTHER ->
                IF dict_get(result, "ErrorCode", PInt(0)) # PInt(0)
                THEN Did(<<Post(body)>>,
                         Raise(AlfaBankSBPClientError(
                             <<dict_get(result, "ErrorCode", None),
                               dict_get(result, "message", PStr("Neizvestnaya oshibka"))>>)))
                ELSE Did(<<Post(body)>>, Return(PDict(result)))

_send_request(data, response) ==
    LET body == json_dumps(PDict(data))
        result == response.json
    IN  CASE response.kind = "connection_error" ->
                Did(<<Post(body)>>, Raise(ConnectionError))
          [] response.kind = "http_error" ->
                Did(<<Post(body)>>, Raise(HTTPError))
          [] OTHER ->
                IF dict_get(result, "ErrorCode", None) # PInt(0)
                THEN Did(<<Post(body)>>,
                         Raise(AlfaBankSBPClientError(
                             <<dict_get(result, "ErrorCode", None),
                               dict_get(result, "message", PStr("Neizvestnaya oshibka"))>>)))
                ELSE Did(<<Post(body)>>, Return(PDict(result)))

----------------------------------------------------------------------------
(* The operations.  `a` is the record of the call's arguments, `response`  *)
(* the outcome of the HTTP exchange, should the call get to its POST.      *)

get_qr_code(self_term_no, a, response) ==
    LET params == [qrcType |-> a.qrc_type,
                   amount |-> py_str(a.amount),
                   currency |-> a.currency,
                   paymentPurpose |-> a.payment_purpose,
                   qrTtl |-> a.qr_ttl,
                   redirectUrl |-> a.redirect_url,
                   width |-> a.width,
                   height |-> a.height,
                   orderNumber |-> a.order_number,
                   messageID |-> a.message_id,
                   subscriptionServiceId |-> a.subscription_service_id,
                   subscriptionServiceName |-> a.subscription_service_name]
        queryData == [notificationUrl |-> a.notification_url,
                      SenderFIO |-> a.sender_fio,
                      SenderID |-> a.sender_id,
                      SenderBankBIC |-> a.sender_bank_bic]
        full == IF \E v \in {a.notification_url, a.sender_fio, a.sender_id,
                             a.sender_bank_bic} : Truthy(v)
                THEN ("queryData" :> PDict(queryData)) @@ params
                ELSE params
    IN  _send_request(_build_request_data(self_term_no, "GetQRCd", full), response)

get_qr_status(self_term_no, a, response) ==
    IF ~(Truthy(a.qrc_id) \/ Truthy(a.payrrn))
    THEN Did(<<>>, Raise(AlfaBankSBPClientError(<<PStr("Trebuetsya qrcId ili payrrn")>>)))
    ELSE LET params == [qrcId |-> a.qrc_id, payrrn |-> a.payrrn, messageID |-> a.message_id]
         IN  _send_request(_build_request_data(self_term_no, "GetQRCstatus", params), response)

get_reversal_data(self_term_no, a, response) ==
    IF ~(Truthy(a.qrc_id) \/ Truthy(a.payrrn) \/ Truthy(a.trx_id))
    THEN Did(<<>>, Raise(AlfaBankSBPClientError(
                             <<PStr("Trebuetsya qrcId, payrrn ili trxId")>>)))
    ELSE LET params ==
                 [qrcId |-> a.qrc_id,
                  payrrn |-> a.payrrn,
                  trxId |-> a.trx_id,
                  trxDT |-> a.trx_dt,
                  amount |-> IF a.amount # None THEN py_str(a.amount) ELSE None,
                  currency |-> a.currency,
                  messageID |-> a.message_id,
                  ReturnRestAmount |-> IF a.return_rest_amount # None
                                       THEN py_lower(py_str(a.return_rest_amount))
                                       ELSE None]
         IN  _send_request(_build_request_data(self_term_no, "GetQRCreversalData", params),
                           response)

perform_reversal(self_term_no, a, response) ==
    IF ~(Truthy(a.qrc_id) \/ Truthy(a.payrrn) \/ Truthy(a.trx_id))
    THEN Did(<<>>, Raise(AlfaBankSBPClientError(
                             <<PStr("-1"), PStr("Trebuetsya qrcId, payrrn ili trxId")>>)))
    ELSE LET params ==
                 [qrcId |-> a.qrc_id,
                  payrrn |-> a.payrrn,
                  trxId |-> a.trx_id,
                  trxDT |-> a.trx_dt,
                  amount |-> IF a.amount # None THEN py_str(a.amount) ELSE None,
                  currency |-> a.currency,
                  messageID |-> a.message_id,
                  ReturnRestAmount |-> IF a.return_rest_amount # None
                                       THEN py_lower(py_str(a.return_rest_amount))
                                       ELSE None,
                  queryData |-> PDict([notificationUrl |-> a.notification_url])]
         IN  _send_request(_build_request_data(self_term_no, "QRCreversal", params), response)

get_reversal_status(self_term_no, a, response) ==
    IF ~(Truthy(a.payrrn) \/ Truthy(a.original_trx_id))
    THEN Did(<<>>, Raise(AlfaBankSBPClientError(
                             <<PStr("Trebuetsya payrrn ili originalTrxId")>>)))
    ELSE IF ~(Truthy(a.trx_id) \/ Truthy(a.message_id))
    THEN Did(<<>>, Raise(AlfaBankSBPClientError(<<PStr("Trebuetsya trxId ili messageID")>>)))
    ELSE _send_request(
             _build_request_data(self_term_no, "GetQRCreversalStatus",
                                 [payrrn |-> a.payrrn,
                                  originalTrxId |-> a.original_trx_id,
                                  trxId |-> a.trx_id,
                                  messageID |-> a.message_id]),
             response)

get_reversal_history(self_term_no, a, response) ==
    _send_request(_build_request_data(self_term_no, "GetQRCreversalHistory",
                                      [payrrn |-> a.payrrn]),
                  response)

----------------------------------------------------------------------------
(* poll_qr_status *)

\* a loop that runs once more than max_attempts
py_range_inclusive(n) == 0 .. n

\* range(max_attempts)
py_range(n) == 0 .. (n - 1)

\* only ACWP taken for a final status
is_final_accepted_only(status) == status = PStr("ACWP")

\* status in ["ACWP", "RJCT"]
is_final(status) == status \in {PStr("ACWP"), PStr("RJCT")}

\* except Exception
is_caught_any(exc) == TRUE

\* except AlfaBankSBPClientError
is_caught(exc) == exc.type = "AlfaBankSBPClientError"

\* the status is not final: the debug record, then the sleep
after_intermediate(sofar, n, interval_seconds) ==
    sofar \o <<Debug("intermediate", n + 1), Sleep(py_max(interval_seconds, 10))>>

\* an except clause that goes to the next attempt without the sleep
after_failed_no_sleep(sofar, n, interval_seconds) == sofar \o <<Debug("failed", n + 1)>>

\* the except clause: the debug record, then the sleep
after_failed(sofar, n, interval_seconds) ==
    sofar \o <<Debug("failed", n + 1), Sleep(py_max(interval_seconds, 10))>>

----------------------------------------------------------------------------
(* The arguments the calls are made with *)

TermNos == {PStr(""), PStr("T")}
IdValues == {None, PStr(""), PStr("id")}
OptStrs == {PStr("v")}
QueryStrs == {PStr(""), PStr("v")}
Amounts == {PInt(0), PInt(10000)}
Bools == {PBool(TRUE), PBool(FALSE)}
Intervals == {-1, 0, 1, 10, 30}

\* the argument records that take their default everywhere but on at most
\* MaxOpt of the parameters of alts, which take one of their other values
Assignments(defaults, alts) ==
    UNION {{[k \in DOMAIN defaults |-> IF k \in S THEN v[k] ELSE defaults[k]] :
                v \in {w \in [S -> UNION {alts[k] : k \in S}] : \A k \in S : w[k] \in alts[k]}} :
           S \in {T \in SUBSET (DOMAIN alts) : Cardinality(T) <= MaxOpt}}

\* the argument records over the identifier parameters ids
Identifiers(ids) == [ids -> IdValues]

QrCodeArgs ==
    {a @@ [amount |-> m] :
        a \in Assignments(
                 [currency |-> PStr("RUB"), qrc_type |-> PStr("02"),
                  payment_purpose |-> None, qr_ttl |-> None, notification_url |-> None,
                  redirect_url |-> None, width |-> None, height |-> None,
                  order_number |-> None, message_id |-> None, sender_fio |-> None,
                  sender_id |-> None, sender_bank_bic |-> None,
                  subscription_service_id |-> None, subscription_service_name |-> None],
                 [currency |-> OptStrs, qrc_type |-> OptStrs,
                  payment_purpose |-> OptStrs, qr_ttl |-> OptStrs,
                  notification_url |-> QueryStrs,
                  redirect_url |-> OptStrs, width |-> OptStrs, height |-> OptStrs,
                  order_number |-> OptStrs, message_id |-> OptStrs,
                  sender_fio |-> QueryStrs,
                  sender_id |-> QueryStrs, sender_bank_bic |-> QueryStrs,
                  subscription_service_id |-> OptStrs,
                  subscription_service_name |-> OptStrs]),
        m \in Amounts}

QrStatusArgs ==
    {i @@ a : i \in Identifiers({"qrc_id", "payrrn"}),
              a \in Assignments([message_id |-> None], [message_id |-> OptStrs])}

ReversalDataArgs ==
    {i @@ a : i \in Identifiers({"qrc_id", "payrrn", "trx_id"}),
              a \in Assignments(
                       [trx_dt |-> None, amount |-> None, currency |-> None,
                        message_id |-> None, return_rest_amount |-> None],
                       [trx_dt |-> OptStrs, amount |-> Amounts, currency |-> OptStrs,
                        message_id |-> OptStrs, return_rest_amount |-> Bools])}

ReversalArgs ==
    {i @@ a : i \in Identifiers({"qrc_id", "payrrn", "trx_id"}),
              a \in Assignments(
                       [trx_dt |-> None, amount |-> None, currency |-> None,
                        message_id |-> None, notification_url |-> None,
                        return_rest_amount |-> None],
                       [trx_dt |-> OptStrs, amount |-> Amounts, currency |-> OptStrs,
                        message_id |-> OptStrs, notification_url |-> OptStrs,
                        return_rest_amount |-> Bools])}

ReversalStatusArgs == Identifiers({"payrrn", "original_trx_id", "trx_id", "message_id"})

ReversalHistoryArgs == Identifiers({"payrrn"})

PollArgs ==
    {i @@ [max_attempts |-> n, interval_seconds |-> s] :
        i \in Identifiers({"qrc_id", "payrrn"}),
        n \in -1 .. MaxAttempts,
        s \in Intervals}

----------------------------------------------------------------------------
(* The state machine *)

NoCall == [op |-> "none"]
Call(op, a) == [op |-> op, args |-> a]

Init ==
    /\ term_no \in TermNos
    /\ pc = "idle"
    /\ call = NoCall
    /\ log = <<>>
    /\ attempt = 0
    /\ http = NoHttp
    /\ outcome = NoOutcome

\* a call of a one-shot operation, from its entry to its return or raise
Finish(op, a, did, response) ==
    /\ call' = Call(op, a)
    /\ log' = did.post
    /\ http' = IF did.post = <<>> THEN NoHttp ELSE response
    /\ outcome' = did.out
    /\ pc' = "done"
    /\ UNCHANGED <<term_no, attempt>>

GetQrCode ==
    /\ pc = "idle"
    /\ \E a \in QrCodeArgs, response \in HttpOutcomes :
          Finish("get_qr_code", a, get_qr_code(term_no, a, response), response)

GetQrStatus ==
    /\ pc = "idle"
    /\ \E a \in QrStatusArgs, response \in HttpOutcomes :
          Finish("get_qr_status", a, get_qr_status(term_no, a, response), response)

GetReversalData ==
    /\ pc = "idle"
    /\ \E a \in ReversalDataArgs, response \in HttpOutcomes :
          Finish("get_reversal_data", a, get_reversal_data(term_no, a, response), response)

PerformReversal ==
    /\ pc = "idle"
    /\ \E a \in ReversalArgs, response \in HttpOutcomes :
          Finish("perform_reversal", a, perform_reversal(term_no, a, response), response)

GetReversalStatus ==
    /\ pc = "idle"
    /\ \E a \in ReversalStatusArgs, response \in HttpOutcomes :
          Finish("get_reversal_status", a, get_reversal_status(term_no, a, response),
                 response)

GetReversalHistory ==
    /\ pc = "idle"
    /\ \E a \in ReversalHistoryArgs, response \in HttpOutcomes :
          Finish("get_reversal_history", a, get_reversal_history(term_no, a, response),
                 response)

\* poll_qr_status, from its entry to the head of its loop
PollQrStatus ==
    /\ pc = "idle"
    /\ \E a \in PollArgs :
          /\ call' = Call("poll_qr_status", a)
          /\ log' = <<>>
          /\ http' = NoHttp
          /\ attempt' = 0
          /\ IF ~(Truthy(a.qrc_id) \/ Truthy(a.payrrn))
             THEN /\ outcome' = Raise(AlfaBankSBPClientError(
                                          <<PStr("Trebuetsya qrcId ili payrrn")>>))
                  /\ pc' = "done"
             ELSE /\ outcome' = NoOutcome
                  /\ pc' = "poll"
    /\ UNCHANGED term_no

\* one iteration of the loop of poll_qr_status
PollAttempt ==
    /\ pc = "poll"
    /\ attempt \in py_range(call.args.max_attempts)
    /\ \E response \in HttpOutcomes :
          LET a == call.args
              did == get_qr_status(term_no,
                                   [qrc_id |-> a.qrc_id, payrrn |-> a.payrrn,
                                    message_id |-> None],
                                   response)
              sent == log \o did.post
          IN  /\ http' = IF did.post = <<>> THEN http ELSE response
              /\ IF did.out.kind = "return"
                 THEN LET result == did.out.value
                          status == dict_get(result.d, "status", None)
                      IN  IF is_final(status)
                          THEN /\ log' = sent \o <<Debug("final", attempt + 1)>>
                               /\ outcome' = Return(result)
                               /\ pc' = "done"
                               /\ UNCHANGED attempt
                          ELSE /\ log' = after_intermediate(sent, attempt, a.interval_seconds)
                               /\ attempt' = attempt + 1
                               /\ UNCHANGED <<outcome, pc>>
                 ELSE IF is_caught(did.out.exc)
                      THEN /\ log' = after_failed(sent, attempt, a.interval_seconds)
                           /\ attempt' = attempt + 1
                           /\ UNCHANGED <<outcome, pc>>
                      ELSE /\ log' = sent
                           /\ outcome' = did.out
                           /\ pc' = "done"
                           /\ UNCHANGED attempt
    /\ UNCHANGED <<term_no, call>>

\* the loop of poll_qr_status is over: the function falls off its end
PollExhausted ==
    /\ pc = "poll"
    /\ attempt \notin py_range(call.args.max_attempts)
    /\ outcome' = Return(None)
    /\ pc' = "done"
    /\ UNCHANGED <<term_no, call, log, attempt, http>>

\* the caller has the outcome of the call; the client is ready for the next
CallOver ==
    /\ pc = "done"
    /\ pc' = "idle"
    /\ call' = NoCall
    /\ log' = <<>>
    /\ attempt' = 0
    /\ http' = NoHttp
    /\ outcome' = NoOutcome
    /\ UNCHANGED term_no

Next ==
    \/ GetQrCode
    \/ GetQrStatus
    \/ GetReversalData
    \/ PerformReversal
    \/ GetReversalStatus
    \/ GetReversalHistory
    \/ PollQrStatus
    \/ PollAttempt
    \/ PollExhausted
    \/ CallOver

Spec == Init /\ [][Next]_vars

----------------------------------------------------------------------------
(* Vocabulary of the properties *)

Posts(l) == SelectSeq(l, LAMBDA e : e.ev = "post")
Sleeps(l) == SelectSeq(l, LAMBDA e : e.ev = "sleep")
Attempts(l) == SelectSeq(l, LAMBDA e : e.ev = "debug")
\* the POSTs and the sleeps of a call, in the order they happened
Wire(l) == SelectSeq(l, LAMBDA e : e.ev \in {"post", "sleep"})

Polling == call.op = "poll_qr_status"
TransportFailed == http.kind \in {"connection_error", "http_error"}
TransportError == IF http.kind = "connection_error" THEN ConnectionError ELSE HTTPError
\* the latest exchange gave a mapping whose ErrorCode is 0
ApiSuccess == http.kind = "ok" /\ dict_get(http.json, "ErrorCode", None) = PInt(0)
ApiFailure == http.kind = "ok" /\ dict_get(http.json, "ErrorCode", None) # PInt(0)
TerminalStatus == dict_get(http.json, "status", None) \in {PStr("ACWP"), PStr("RJCT")}

Floor10(s) == IF s < 10 THEN 10 ELSE s
AtLeast0(n) == IF n < 0 THEN 0 ELSE n

Set(v) == v # None /\ v # PStr("")

\* the identifier rule of the operation of the call
IdentifierRule ==
    LET a == call.args
    IN  CASE call.op \in {"get_qr_status", "poll_qr_status"} -> Set(a.qrc_id) \/ Set(a.payrrn)
          [] call.op \in {"get_reversal_data", "perform_reversal"} ->
                Set(a.qrc_id) \/ Set(a.payrrn) \/ Set(a.trx_id)
          [] call.op = "get_reversal_status" ->
                /\ Set(a.payrrn) \/ Set(a.original_trx_id)
                /\ Set(a.trx_id) \/ Set(a.message_id)
          [] call.op = "get_reversal_history" -> Set(a.payrrn)
          [] OTHER -> TRUE

ValidationMessages ==
    {PStr("Trebuetsya qrcId ili payrrn"), PStr("Trebuetsya qrcId, payrrn ili trxId"),
     PStr("Trebuetsya payrrn ili originalTrxId"), PStr("Trebuetsya trxId ili messageID")}

RaisedValidationError ==
    /\ outcome.kind = "raise"
    /\ outcome.exc.type = "AlfaBankSBPClientError"
    /\ outcome.exc.message \in ValidationMessages

----------------------------------------------------------------------------
(* C1 *)

\* C1: a call of get_qr_status, get_reversal_data, perform_reversal,
\* get_reversal_status or poll_qr_status whose identifier rule is not
\* satisfied ends by raising AlfaBankSBPClientError with a message naming the
\* missing identifiers, and issues no HTTP POST.
C1_ValidationRaisesClientError ==
    (/\ pc = "done"
     /\ call.op \in {"get_qr_status", "get_reversal_data", "perform_reversal",
                     "get_reversal_status", "poll_qr_status"}
     /\ ~IdentifierRule)
        => (RaisedValidationError /\ Posts(log) = <<>>)

----------------------------------------------------------------------------
(* C2 *)

\* C2: in poll_qr_status with a valid identifier, when the k-th status query
\* (k <= max_attempts) is the first to return a response with status ACWP or
\* RJCT, the poll returns exactly that response, having issued k queries and
\* slept k-1 times, max(interval_seconds, 10) seconds each, every sleep
\* between two consecutive queries.
C2_PollReturnsTerminalResponse ==
    (Polling /\ ApiSuccess /\ TerminalStatus) =>
        LET k == Len(Posts(log))
            w == Wire(log)
        IN  /\ pc = "done"
            /\ outcome = Return(PDict(http.json))
            /\ k >= 1
            /\ k <= call.args.max_attempts
            /\ Len(Sleeps(log)) = k - 1
            /\ Len(w) = 2 * k - 1
            /\ \A i \in 1 .. Len(w) :
                  IF i % 2 = 1
                  THEN w[i].ev = "post"
                  ELSE w[i] = Sleep(Floor10(call.args.interval_seconds))

\* statuses PDNG, PDNG, ACWP with max_attempts = 3 and interval_seconds = 1:
\* the third response is returned after 3 queries and two sleeps of 10
C2_Witness ==
    /\ Polling
    /\ pc = "done"
    /\ call.args.max_attempts = 3
    /\ call.args.interval_seconds = 1
    /\ [i \in 1 .. Len(Attempts(log)) |-> Attempts(log)[i].what]
           = <<"intermediate", "intermediate", "final">>
    /\ outcome.kind = "return"
    /\ outcome.value # None
    /\ dict_get(outcome.value.d, "status", None) = PStr("ACWP")
    /\ Len(Posts(log)) = 3
    /\ Sleeps(log) = <<Sleep(10), Sleep(10)>>

----------------------------------------------------------------------------
(* C3 *)

\* C3: poll_qr_status with a valid identifier never issues more than
\* max_attempts status queries, and none when max_attempts <= 0; when each of
\* the max_attempts queries gave a non-terminal response or an API error, no
\* further query can be made and the poll ends returning None after exactly
\* max_attempts queries.
C3_PollExhaustedReturnsNone ==
    Polling =>
        LET n == AtLeast0(call.args.max_attempts)
            unfinished == SelectSeq(Attempts(log),
                                    LAMBDA e : e.what \in {"intermediate", "failed"})
        IN  /\ Len(Posts(log)) <= n
            /\ (pc = "poll" /\ Len(unfinished) >= n) =>
                  (~ENABLED PollAttempt /\ ENABLED PollExhausted)
            /\ (pc = "done" /\ IdentifierRule /\ Len(unfinished) >= n) =>
                  (outcome = Return(None) /\ Len(Posts(log)) = n)
            /\ (pc = "done" /\ outcome = Return(None)) =>
                  (Len(Posts(log)) = n /\ Len(unfinished) = n)

\* three attempts, among them a non-terminal response and an API error, and
\* the poll has returned None
C3_Witness ==
    /\ Polling
    /\ pc = "done"
    /\ outcome = Return(None)
    /\ call.args.max_attempts = 3
    /\ Len(Posts(log)) = 3
    /\ \E i, j \in 1 .. 3 : /\ Attempts(log)[i].what = "intermediate"
                            /\ Attempts(log)[j].what = "failed"

----------------------------------------------------------------------------
(* C4 *)

----------------------------------------------------------------------------
(* C5 *)

\* C5: within one poll_qr_status call, whatever interval_seconds and whatever
\* the outcomes of the queries, two consecutive status queries are separated
\* by a sleep of at least 10 seconds, and every sleep lasts exactly
\* max(interval_seconds, 10), so that an interval above 10 is honoured.
C5_QueriesAtLeastTenSecondsApart ==
    Polling =>
        LET w == Wire(log)
            s == call.args.interval_seconds
        IN  /\ \A i \in 1 .. Len(w) - 1 : ~(w[i].ev = "post" /\ w[i + 1].ev = "post")
            /\ \A i \in 1 .. Len(w) :
                  w[i].ev = "sleep" =>
                      /\ w[i].secs >= 10
                      /\ w[i].secs = Floor10(s)
                      /\ s > 10 => w[i].secs = s

\* a poll asked for a negative interval has made a second query, after an API
\* error and a sleep of 10
C5_Witness ==
    /\ Polling
    /\ call.args.interval_seconds < 0
    /\ Len(Posts(log)) >= 2
    /\ Attempts(log)[1].what = "failed"
    /\ Sleeps(log)[1].secs = 10

----------------------------------------------------------------------------
(* C6 *)

\* C6: after an HTTP exchange with a success status, _send_request returns
\* the parsed mapping unchanged when its ErrorCode equals 0, and otherwise
\* (ErrorCode absent or not 0) raises AlfaBankSBPClientError whose code is the
\* ErrorCode of the response and whose message is its message field, or the
\* unknown-error text when there is none; exactly one of the two happens.
C6_ResponseClassifiedByErrorCode ==
    (call.op \notin {"none", "poll_qr_status"} /\ http.kind = "ok") =>
        LET r == http.json
        IN  /\ pc = "done"
            /\ IF "ErrorCode" \in DOMAIN r /\ r["ErrorCode"] = PInt(0)
               THEN outcome = Return(PDict(r))
               ELSE outcome =
                       Raise([type |-> "AlfaBankSBPClientError",
                              code |-> IF "ErrorCode" \in DOMAIN r
                                       THEN r["ErrorCode"] ELSE None,
                              message |-> IF "message" \in DOMAIN r
                                          THEN r["message"]
                                          ELSE PStr("Neizvestnaya oshibka")])

\* a response with neither ErrorCode nor message has been turned into the
\* error with the unknown-error text
C6_Witness ==
    /\ call.op = "get_qr_code"
    /\ http.kind = "ok"
    /\ DOMAIN http.json = {"status"}
    /\ outcome = Raise([type |-> "AlfaBankSBPClientError", code |-> None,
                        message |-> PStr("Neizvestnaya oshibka")])

----------------------------------------------------------------------------
(* C7 *)

NoNullMember(obj) == \A k \in DOMAIN obj.members : obj.members[k].j # "null"

\* C7: the envelope that is serialized and sent has a key for an optional
\* field only if the parameter was set: no key is sent as null, in the
\* envelope or in its queryData; get_qr_code(amount=10000) with nothing else
\* set sends exactly command, TermNo, qrcType "02", amount "10000" and
\* currency "RUB".
C7_UnsetParametersOmitted ==
    \A i \in 1 .. Len(Posts(log)) :
        LET obj == Posts(log)[i].body
            m == obj.members
        IN  /\ NoNullMember(obj)
            /\ "queryData" \in DOMAIN m => NoNullMember(m["queryData"])
            /\ (/\ call.op = "get_qr_code"
                /\ call.args.amount = PInt(10000)
                /\ \A k \in DOMAIN call.args :
                      k \notin {"amount", "currency", "qrc_type"} => call.args[k] = None
                /\ call.args.currency = PStr("RUB")
                /\ call.args.qrc_type = PStr("02"))
               => /\ DOMAIN m = {"command", "TermNo", "qrcType", "amount", "currency"}
                  /\ m["qrcType"] = [j |-> "string", s |-> "02"]
                  /\ m["amount"] = [j |-> "string", s |-> "10000"]
                  /\ m["currency"] = [j |-> "string", s |-> "RUB"]

----------------------------------------------------------------------------
(* C8 *)

\* C8: get_reversal_history called with payrrn unset (None or the empty
\* string) raises the validation error and issues no HTTP POST.
C8_ReversalHistoryRequiresPayrrn ==
    (pc = "done" /\ call.op = "get_reversal_history" /\ ~IdentifierRule) =>
        /\ outcome.kind = "raise"
        /\ outcome.exc.type = "AlfaBankSBPClientError"
        /\ Posts(log) = <<>>

----------------------------------------------------------------------------
(* C9 *)

CommandOf(op) ==
    CASE op = "get_qr_code" -> "GetQRCd"
      [] op \in {"get_qr_status", "poll_qr_status"} -> "GetQRCstatus"
      [] op = "get_reversal_data" -> "GetQRCreversalData"
      [] op = "perform_reversal" -> "QRCreversal"
      [] op = "get_reversal_status" -> "GetQRCreversalStatus"
      [] op = "get_reversal_history" -> "GetQRCreversalHistory"

\* the envelope carries the command of the operation and the terminal
\* identifier of the client
EnvelopeHeaded(m) ==
    /\ "command" \in DOMAIN m
    /\ m["command"] = [j |-> "string", s |-> CommandOf(call.op)]
    /\ "TermNo" \in DOMAIN m
    /\ m["TermNo"] = [j |-> "string", s |-> term_no.s]

\* C9: every envelope passed to _send_request, on a client constructed with
\* any term_no, carries the command of the invoked operation, one of the six
\* command names, and a TermNo that is present, equals the terminal identifier
\* given at construction and is never empty.
C9_EnvelopeCommandAndTermNo ==
    \A i \in 1 .. Len(Posts(log)) :
        LET m == Posts(log)[i].body.members
        IN  /\ EnvelopeHeaded(m)
            /\ m["TermNo"].s # ""

\* C9 as amended: every envelope carries the command of the invoked
\* operation and a TermNo that is present and equals the terminal identifier
\* given at construction; TermNo is empty exactly when that identifier is.
C9_EnvelopeCommandAndGivenTermNo ==
    \A i \in 1 .. Len(Posts(log)) :
        LET m == Posts(log)[i].body.members
        IN  /\ EnvelopeHeaded(m)
            /\ m["TermNo"].s = "" <=> term_no = PStr("")

\* a refund sent by a client constructed with an empty terminal identifier
C9_Witness ==
    /\ term_no = PStr("")
    /\ call.op = "perform_reversal"
    /\ Len(Posts(log)) = 1
    /\ Posts(log)[1].body.members["TermNo"] = [j |-> "string", s |-> ""]

----------------------------------------------------------------------------
(* C10 *)

\* C10: in poll_qr_status every sleep is followed by another status query of
\* the same poll: a poll that exhausts max_attempts = n >= 1 attempts has
\* slept n-1 times and returns None right after its last query.
C10_NoSleepAfterLastAttempt ==
    (Polling /\ pc = "done") =>
        /\ Wire(log) # <<>> => Wire(log)[Len(Wire(log))].ev = "post"
        /\ (outcome = Return(None) /\ call.args.max_attempts >= 1) =>
              Len(Sleeps(log)) = call.args.max_attempts - 1

\* C10 as amended: poll_qr_status sleeps after every attempt that was
\* non-terminal or failed, the last one included: a poll that exhausts
\* max_attempts = n >= 1 attempts has slept n times, one sleep after each
\* query, and returns None after the sleep that follows its last query; a
\* poll that ends otherwise ends right after a query.
C10_SleepAfterEveryUnfinishedAttempt ==
    Polling =>
        LET w == Wire(log)
            n == call.args.max_attempts
        IN  /\ \A i \in 1 .. Len(w) : w[i].ev = IF i % 2 = 1 THEN "post" ELSE "sleep"
            /\ (pc = "done" /\ outcome = Return(None) /\ n >= 1) =>
                  /\ Len(Sleeps(log)) = n
                  /\ Len(w) = 2 * n
                  /\ log[Len(log)].ev = "sleep"
            /\ (pc = "done" /\ outcome # Return(None) /\ w # <<>>) =>
                  w[Len(w)].ev = "post"

\* a poll of two attempts, the last of them failed, has returned None after
\* its second sleep
C10_Witness ==
    /\ Polling
    /\ pc = "done"
    /\ outcome = Return(None)
    /\ call.args.max_attempts = 2
    /\ Len(Sleeps(log)) = 2
    /\ Attempts(log)[2].what = "failed"
    /\ log[Len(log)].ev = "sleep"

====
